---- MODULE Spec2Model ----
(***************************************************************************)
(* A model of digikey_mcp: the DigiKeyClient (OAuth2 client-credentials    *)
(* token, headers, request primitive), the nine API operations that build  *)
(* requests on top of it, and the server's module-level lazily created     *)
(* client with the tools that use it.                                      *)
(*                                                                         *)
(* Python values are kept as follows.  An optional value is a sequence of  *)
(* length 0 (None) or 1 (the value).  A str is a TLA+ string, except the   *)
(* two strings the code takes apart (search_options, split on commas, and  *)
(* USE_SANDBOX, lower-cased), which are sequences of one-character         *)
(* strings.  A URL is the sequence of the pieces the code concatenates,    *)
(* the first piece being scheme and host; Text(url) is the string sent.    *)
(* A dict is a function from its keys; a dict built key by key whose order *)
(* reaches the wire (query parameters) is a sequence of <<key, value>>.    *)
(***************************************************************************)
EXTENDS Integers, Sequences, FiniteSets, TLC

VARIABLES
    env,      \* the process environment: CLIENT_ID, CLIENT_SECRET, USE_SANDBOX
    heap,     \* the DigiKeyClient objects constructed so far, by identity
    _client,  \* server._client: 0 for None, else an index into heap
    phase,    \* the server process: "boot", "serving" or "exited"
    pending,  \* number of tool invocations the event loop holds and has not run
    running,  \* the tool handler being executed, between its two calls
    tokenRequests, \* requests sent to the token endpoint since the process began
    last,     \* the call most recently begun, with its arguments
    sent,     \* the HTTP requests that call put on the wire, in order
    recv,     \* the HTTP responses it received, in order
    result    \* how it ended: a returned value or a raised exception

vars == <<env, heap, _client, phase, pending, running, tokenRequests, last, sent, recv, result>>

----------------------------------------------------------------------------
\* Bounds of the model.

\* Longest search_options string (in characters) the operations are given.
MaxOptLen == 3
\* Most tool invocations waiting in the event loop at one time.
MaxPending == 2

----------------------------------------------------------------------------
\* Python values.

None == <<>>
Some(v) == <<v>>

\* bool(x) of an Optional[str]: None and "" are falsy.
Truthy(o) == o # None /\ o[1] # ""
\* bool(x) of an optional string kept as a character sequence.
TruthyChars(o) == o # None /\ o[1] # <<>>

\* str(x) as an f-string renders it.
PyStrBool(b) == IF b THEN "True" ELSE "False"
PyStrOpt(o) == IF o = None THEN "None" ELSE o[1]

RECURSIVE Text(_)
\* The string a sequence of pieces (or of characters) spells.
Text(s) == IF s = <<>> THEN "" ELSE Head(s) \o Text(Tail(s))

RECURSIVE SplitFrom(_, _, _)
\* str.split(","): cur is the part being read, s what is left to read.
SplitFrom(s, cur, sep) ==
    IF s = <<>> THEN <<cur>>
    ELSE IF Head(s) = sep THEN <<cur>> \o SplitFrom(Tail(s), <<>>, sep)
    ELSE SplitFrom(Tail(s), Append(cur, Head(s)), sep)

\* A split that was forgotten: the whole string as the only part.
Split_KeepsWhole(s, sep) == <<s>>

Split(s, sep) == SplitFrom(s, <<>>, sep)

\* A lower() that leaves the string as it is.
Lower_KeepsCase(s) == s

LowerChar(c) ==
    CASE c = "T" -> "t" [] c = "R" -> "r" [] c = "U" -> "u" [] c = "E" -> "e"
      [] c = "F" -> "f" [] c = "A" -> "a" [] c = "L" -> "l" [] c = "S" -> "s"
      [] OTHER -> c

\* str.lower()
Lower(s) == [i \in 1..Len(s) |-> LowerChar(s[i])]

RECURSIVE JoinPieces(_, _)
\* sep.join(parts), as pieces
JoinPieces(parts, sep) ==
    IF parts = <<>> THEN <<>>
    ELSE IF Len(parts) = 1 THEN <<parts[1]>>
    ELSE <<parts[1], sep>> \o JoinPieces(Tail(parts), sep)

----------------------------------------------------------------------------
\* Outcomes of a call, and what the upstream can answer.

Return(v) == [kind |-> "return", exc |-> "", status |-> 0, text |-> "", value |-> v]
Raise(e, st, tx) == [kind |-> "raise", exc |-> e, status |-> st, text |-> tx, value |-> None]

\* What `last` holds: the operation, its arguments, and the heap index of the
\* client it ran on (0 when it ran on none).
Call(op, args, c) == [op |-> op, args |-> args, client |-> c]
NoCall == Call("none", <<>>, 0)
\* What `running` holds: the tool and the client get_client() returned to it.
Task(tool, c) == [tool |-> tool, client |-> c]
NoTask == Task("none", 0)
NoResult == [kind |-> "none", exc |-> "", status |-> 0, text |-> "", value |-> None]

\* A response body: its raw text and what resp.json() parses from it
\* (None when the text is not JSON).
TokBody(t) == [text |-> "{\"access_token\": \"" \o t \o "\"}",
               json |-> Some([access_token |-> t])]
ErrBody == [text |-> "{\"error\": \"invalid_client\"}",
            json |-> Some([error |-> "invalid_client"])]
HtmlBody == [text |-> "<html>Bad Gateway</html>", json |-> None]
DataBody == [text |-> "{\"Categories\": [{\"CategoryId\": \"1\"}]}",
             json |-> Some([Categories |-> <<[CategoryId |-> "1"]>>])]

Statuses == {200, 201, 304, 401}

Resp(st, b) == [status |-> st, text |-> b.text, json |-> b.json]

TokenResponses == {Resp(st, b) : st \in Statuses, b \in {TokBody("tokA"), TokBody("tokB"), ErrBody, HtmlBody}}
ApiResponses == {Resp(st, b) : st \in Statuses, b \in {DataBody, HtmlBody}}

\* requests.Response.raise_for_status(): raises HTTPError for 4xx and 5xx only.
RaisesForStatus(st) == 400 <= st /\ st < 600

----------------------------------------------------------------------------
\* client.py: DigiKeyClient

SandboxBase == "https://sandbox-api.digikey.com"
ProdBase == "https://api.digikey.com"
TokenPath == "/v1/oauth2/token"

\* A constructor whose token endpoint ignores the sandbox flag.
DigiKeyClient_ProductionTokenUrl(client_id, client_secret, use_sandbox) ==
    [client_id |-> client_id,
     client_secret |-> client_secret,
     use_sandbox |-> use_sandbox,
     token_url |-> <<ProdBase, TokenPath>>,
     api_base |-> IF use_sandbox THEN <<SandboxBase>> ELSE <<ProdBase>>,
     access_token |-> None]

\* DigiKeyClient.__init__
DigiKeyClient(client_id, client_secret, use_sandbox) ==
    [client_id |-> client_id,
     client_secret |-> client_secret,
     use_sandbox |-> use_sandbox,
     token_url |-> IF use_sandbox THEN <<SandboxBase, TokenPath>> ELSE <<ProdBase, TokenPath>>,
     api_base |-> IF use_sandbox THEN <<SandboxBase>> ELSE <<ProdBase>>,
     access_token |-> None]

\* A request as requests.get / requests.post puts it on the wire.
Request(method, url, headers, data, json) ==
    [method |-> method, url |-> url, headers |-> headers, data |-> data, json |-> json]

\* The effect of a call on a client: the client afterwards, the outcome,
\* the requests sent and the responses received.
Effect(c, out, s, r) == [client |-> c, out |-> out, sent |-> s, recv |-> r]

\* DigiKeyClient.authenticate after its credential check: the token request
\* and what is done with the answer resp.
request_token(c, resp) ==
    LET data == [grant_type |-> "client_credentials",
                 client_id |-> c.client_id[1],
                 client_secret |-> c.client_secret[1]]
        headers == [ct \in {"Content-Type"} |-> "application/x-www-form-urlencoded"]
        req == Request("POST", c.token_url, headers, Some(data), None)
    IN IF resp.status # 200 /\ RaisesForStatus(resp.status)
       THEN Effect(c, Raise("HTTPError", resp.status, resp.text), <<req>>, <<resp>>)
       ELSE IF resp.json = None
       THEN Effect(c, Raise("JSONDecodeError", 0, ""), <<req>>, <<resp>>)
       ELSE IF "access_token" \notin DOMAIN resp.json[1]
       THEN Effect(c, Raise("KeyError", 0, "access_token"), <<req>>, <<resp>>)
       ELSE Effect([c EXCEPT !.access_token = Some(resp.json[1].access_token)],
                   Return(None), <<req>>, <<resp>>)

\* An authenticate that tests its credentials with `is None`: an empty
\* string passes.
authenticate_ChecksNoneOnly(c, resp) ==
    IF c.client_id = None \/ c.client_secret = None
    THEN Effect(c, Raise("ValueError", 0, "CLIENT_ID and CLIENT_SECRET must be provided"), <<>>, <<>>)
    ELSE request_token(c, resp)

\* DigiKeyClient.authenticate, resp being the token endpoint's answer if asked.
authenticate(c, resp) ==
    IF ~Truthy(c.client_id) \/ ~Truthy(c.client_secret)
    THEN Effect(c, Raise("ValueError", 0, "CLIENT_ID and CLIENT_SECRET must be provided"), <<>>, <<>>)
    ELSE request_token(c, resp)

\* A get_headers that leaves the customer id header out.
get_headers_OmitsCustomerId(c, customer_id) ==
    ("Authorization" :> ("Bearer " \o PyStrOpt(c.access_token)))
    @@ ("X-DIGIKEY-Client-Id" :> c.client_id)
    @@ ("Content-Type" :> "application/json")
    @@ ("X-DIGIKEY-Locale-Site" :> "US")
    @@ ("X-DIGIKEY-Locale-Language" :> "en")
    @@ ("X-DIGIKEY-Locale-Currency" :> "USD")

\* DigiKeyClient.get_headers
get_headers(c, customer_id) ==
    ("Authorization" :> ("Bearer " \o PyStrOpt(c.access_token)))
    @@ ("X-DIGIKEY-Client-Id" :> c.client_id)
    @@ ("Content-Type" :> "application/json")
    @@ ("X-DIGIKEY-Locale-Site" :> "US")
    @@ ("X-DIGIKEY-Locale-Language" :> "en")
    @@ ("X-DIGIKEY-Locale-Currency" :> "USD")
    @@ ("X-DIGIKEY-Customer-Id" :> customer_id)

\* str.upper() of the method names the callers pass.
Upper(m) == CASE m = "get" -> "GET" [] m = "post" -> "POST" [] OTHER -> m

\* DigiKeyClient.make_request after the request req went out: what is done
\* with the answer resp.
handle_response(c, req, resp) ==
    IF resp.status # 200 /\ RaisesForStatus(resp.status)
    THEN Effect(c, Raise("HTTPError", resp.status, resp.text), <<req>>, <<resp>>)
    ELSE IF resp.json = None
    THEN Effect(c, Raise("JSONDecodeError", 0, ""), <<req>>, <<resp>>)
    ELSE Effect(c, Return(resp.json), <<req>>, <<resp>>)

\* A make_request that passes json=data on the GET path too.
make_request_BodyOnGet(c, method, url, headers, data, resp) ==
    handle_response(c, IF Upper(method) = "GET"
                       THEN Request("GET", url, headers, None, data)
                       ELSE Request("POST", url, headers, None, data), resp)

\* A make_request that drops the session's token when the upstream answers 401.
make_request_ForgetsTokenOn401(c, method, url, headers, data, resp) ==
    handle_response(IF resp.status = 401 THEN [c EXCEPT !.access_token = None] ELSE c,
                    IF Upper(method) = "GET"
                    THEN Request("GET", url, headers, None, None)
                    ELSE Request("POST", url, headers, None, data), resp)

\* DigiKeyClient.make_request, resp being the upstream's answer.
make_request(c, method, url, headers, data, resp) ==
    handle_response(c, IF Upper(method) = "GET"
                       THEN Request("GET", url, headers, None, None)
                       ELSE Request("POST", url, headers, None, data), resp)

----------------------------------------------------------------------------
\* The nine operations (api/search.py, api/catalog.py, api/product.py).
\* Each takes the client, its parameters and the upstream's answer.

SearchBase == "/products/v4/search/"

\* "&".join([f"{k}={v}" for k, v in params.items()]), params in insertion order
QueryString(params) ==
    JoinPieces([i \in 1..Len(params) |-> params[i][1] \o "=" \o params[i][2]], "&")

\* api/search.py keyword_search
keyword_search(c, keywords, limit, manufacturer_id, category_id, search_options, sort_field, sort_order, resp) ==
    LET url == c.api_base \o <<SearchBase, "keyword">>
        headers == get_headers(c, "0")
        body0 == ("Keywords" :> keywords) @@ ("Limit" :> limit)
        body1 == IF Truthy(manufacturer_id)
                 THEN body0 @@ ("ManufacturerId" :> manufacturer_id[1]) ELSE body0
        body2 == IF Truthy(category_id)
                 THEN body1 @@ ("CategoryId" :> category_id[1]) ELSE body1
        parts == Split(search_options[1], ",")
        body3 == IF TruthyChars(search_options)
                 THEN body2 @@ ("SearchOptionList" :> parts)
                 ELSE body2
        body4 == IF Truthy(sort_field)
                 THEN body3 @@ ("SortOptions" :> [Field |-> sort_field[1], SortOrder |-> sort_order])
                 ELSE body3
    IN make_request(c, "POST", url, headers, Some(body4), resp)

\* A product_details that adds manufacturerId whether or not it was given.
product_details_AlwaysSendsManufacturer(c, product_number, manufacturer_id, customer_id, resp) ==
    LET url == c.api_base \o <<SearchBase, product_number, "/productdetails">>
        params == << <<"manufacturerId", PyStrOpt(manufacturer_id)>> >>
    IN make_request(c, "GET", url \o <<"?">> \o QueryString(params),
                    get_headers(c, customer_id), None, resp)

\* api/search.py product_details
product_details(c, product_number, manufacturer_id, customer_id, resp) ==
    LET url == c.api_base \o <<SearchBase, product_number, "/productdetails">>
        headers == get_headers(c, customer_id)
        params == IF Truthy(manufacturer_id)
                  THEN << <<"manufacturerId", manufacturer_id[1]>> >> ELSE <<>>
        url2 == IF params # <<>> THEN url \o <<"?">> \o QueryString(params) ELSE url
    IN make_request(c, "GET", url2, headers, None, resp)

\* api/catalog.py search_manufacturers
search_manufacturers(c, resp) ==
    make_request(c, "GET", c.api_base \o <<SearchBase, "manufacturers">>,
                 get_headers(c, "0"), None, resp)

\* api/catalog.py search_categories
search_categories(c, resp) ==
    make_request(c, "GET", c.api_base \o <<SearchBase, "categories">>,
                 get_headers(c, "0"), None, resp)

\* api/catalog.py get_category_by_id
get_category_by_id(c, category_id, resp) ==
    make_request(c, "GET", c.api_base \o <<SearchBase, "categories/", ToString(category_id)>>,
                 get_headers(c, "0"), None, resp)

\* api/product.py search_product_substitutions
search_product_substitutions(c, product_number, limit, search_options, exclude_marketplace, resp) ==
    LET url == c.api_base \o <<SearchBase, product_number, "/substitutions">>
        headers == get_headers(c, "0")
        params0 == << <<"limit", ToString(limit)>>,
                      <<"excludeMarketPlaceProducts", PyStrBool(exclude_marketplace)>> >>
        params == IF TruthyChars(search_options)
                  THEN Append(params0, <<"searchOptionList", Text(search_options[1])>>)
                  ELSE params0
    IN make_request(c, "GET", url \o <<"?">> \o QueryString(params), headers, None, resp)

\* A get_product_media that asks the upstream a second time when its first
\* request fails.
get_product_media_AsksAgainOnError(c, product_number, resp) ==
    LET e == make_request(c, "GET", c.api_base \o <<SearchBase, product_number, "/media">>,
                          get_headers(c, "0"), None, resp)
    IN IF e.out.kind = "raise"
       THEN Effect(e.client, e.out, e.sent \o e.sent, e.recv \o e.recv)
       ELSE e

\* api/product.py get_product_media
get_product_media(c, product_number, resp) ==
    make_request(c, "GET", c.api_base \o <<SearchBase, product_number, "/media">>,
                 get_headers(c, "0"), None, resp)

\* api/product.py get_product_pricing
get_product_pricing(c, product_number, customer_id, requested_quantity, resp) ==
    LET url == c.api_base \o <<SearchBase, product_number, "/productpricing">>
        headers == get_headers(c, customer_id)
        params == << <<"requestedQuantity", ToString(requested_quantity)>> >>
    IN make_request(c, "GET", url \o <<"?">> \o QueryString(params), headers, None, resp)

\* A get_digi_reel_pricing that also puts the customer id in the query.
get_digi_reel_pricing_CustomerInQuery(c, product_number, requested_quantity, customer_id, resp) ==
    LET url == c.api_base \o <<SearchBase, product_number, "/digireelpricing">>
        params == << <<"requestedQuantity", ToString(requested_quantity)>>,
                     <<"customerId", customer_id>> >>
    IN make_request(c, "GET", url \o <<"?">> \o QueryString(params),
                    get_headers(c, customer_id), None, resp)

\* api/product.py get_digi_reel_pricing
get_digi_reel_pricing(c, product_number, requested_quantity, customer_id, resp) ==
    LET url == c.api_base \o <<SearchBase, product_number, "/digireelpricing">>
        headers == get_headers(c, customer_id)
        params == << <<"requestedQuantity", ToString(requested_quantity)>> >>
    IN make_request(c, "GET", url \o <<"?">> \o QueryString(params), headers, None, resp)

\* The defaults of the optional parameters, as the signatures give them.
KeywordSearchDefaultLimit == 5
SubstitutionsDefaultLimit == 10
PricingDefaultQuantity == 1
DefaultCustomerId == "0"
DefaultSortOrder == "Ascending"

----------------------------------------------------------------------------
\* Arguments the operations are given.

Chars == {"A", "B", ","}

RECURSIVE CharSeqs(_)
\* All character sequences of length at most n.
CharSeqs(n) ==
    IF n = 0 THEN {<<>>}
    ELSE LET shorter == CharSeqs(n - 1)
         IN shorter \cup {Append(s, ch) : s \in {t \in shorter : Len(t) = n - 1}, ch \in Chars}

SearchOptionValues == {None} \cup {Some(s) : s \in CharSeqs(MaxOptLen)}
ProductNumbers == {"296-1721-1-ND", "P2"}
KeywordValues == {"resistor"}
LimitValues == {KeywordSearchDefaultLimit, SubstitutionsDefaultLimit}
OptionalIds == {None, Some(""), Some("m1")}
OptionalCategories == {None, Some("c1")}
SortFields == {None, Some("Price")}
SortOrders == {DefaultSortOrder, "Descending"}
CustomerIds == {DefaultCustomerId, "42"}
Quantities == {PricingDefaultQuantity, 100}
CategoryNumbers == {1, 2}

KeywordSearchArgs ==
    [keywords : KeywordValues, limit : LimitValues, manufacturer_id : OptionalIds,
     category_id : OptionalCategories, search_options : SearchOptionValues,
     sort_field : SortFields, sort_order : SortOrders]
ProductDetailsArgs ==
    [product_number : ProductNumbers, manufacturer_id : OptionalIds, customer_id : CustomerIds]
NoArgs == {<<>>}
CategoryByIdArgs == [category_id : CategoryNumbers]
SubstitutionsArgs ==
    [product_number : ProductNumbers, limit : LimitValues,
     search_options : SearchOptionValues, exclude_marketplace : BOOLEAN]
ProductMediaArgs == [product_number : ProductNumbers]
ProductPricingArgs ==
    [product_number : ProductNumbers, customer_id : CustomerIds, requested_quantity : Quantities]
DigiReelPricingArgs ==
    [product_number : ProductNumbers, requested_quantity : Quantities, customer_id : CustomerIds]

\* The operation `op` applied to client c with the argument record a.
Apply(op, c, a, resp) ==
    CASE op = "keyword_search" ->
           keyword_search(c, a.keywords, a.limit, a.manufacturer_id, a.category_id,
                          a.search_options, a.sort_field, a.sort_order, resp)
      [] op = "product_details" ->
           product_details(c, a.product_number, a.manufacturer_id, a.customer_id, resp)
      [] op = "search_manufacturers" -> search_manufacturers(c, resp)
      [] op = "search_categories" -> search_categories(c, resp)
      [] op = "get_category_by_id" -> get_category_by_id(c, a.category_id, resp)
      [] op = "search_product_substitutions" ->
           search_product_substitutions(c, a.product_number, a.limit, a.search_options,
                                        a.exclude_marketplace, resp)
      [] op = "get_product_media" -> get_product_media(c, a.product_number, resp)
      [] op = "get_product_pricing" ->
           get_product_pricing(c, a.product_number, a.customer_id, a.requested_quantity, resp)
      [] op = "get_digi_reel_pricing" ->
           get_digi_reel_pricing(c, a.product_number, a.requested_quantity, a.customer_id, resp)

Operations ==
    {"keyword_search", "product_details", "search_manufacturers", "search_categories",
     "get_category_by_id", "search_product_substitutions", "get_product_media",
     "get_product_pricing", "get_digi_reel_pricing"}

----------------------------------------------------------------------------
\* Direct calls of the client's own methods.

\* An environment that sets none of the three variables.
NoEnv == [CLIENT_ID |-> None, CLIENT_SECRET |-> None, USE_SANDBOX |-> None]

CredentialValues == {None, Some(""), Some("id1")}
SecretValues == {None, Some(""), Some("sec1")}
Methods == {"GET", "get", "POST"}
BodyValues == {None, Some([Keywords |-> "resistor"])}

\* client.authenticate()
Authenticate ==
    \E resp \in TokenResponses :
      LET e == authenticate(heap[1], resp)
      IN /\ heap' = [heap EXCEPT ![1] = e.client]
         /\ last' = Call("authenticate", <<>>, 1)
         /\ sent' = e.sent
         /\ recv' = e.recv
         /\ result' = e.out
         /\ UNCHANGED <<env, _client, phase, pending, running, tokenRequests>>

\* client.get_headers(customer_id), or client.get_headers() when `given` is
\* None: the parameter then takes its default.
GetHeaders ==
    \E given \in {None} \cup {Some(id) : id \in CustomerIds} :
      LET customer_id == IF given = None THEN DefaultCustomerId ELSE given[1]
      IN /\ last' = Call("get_headers", [customer_id |-> given], 1)
         /\ sent' = <<>>
         /\ recv' = <<>>
         /\ result' = Return(Some(get_headers(heap[1], customer_id)))
         /\ UNCHANGED <<env, heap, _client, phase, pending, running, tokenRequests>>

\* client.make_request(method, url, headers, data)
MakeRequest ==
    \E method \in Methods, data \in BodyValues, resp \in ApiResponses :
      LET url == heap[1].api_base \o <<SearchBase, "manufacturers">>
          e == make_request(heap[1], method, url, get_headers(heap[1], DefaultCustomerId), data, resp)
      IN /\ heap' = [heap EXCEPT ![1] = e.client]
         /\ last' = Call("make_request", [method |-> method, url |-> url, data |-> data], 1)
         /\ sent' = e.sent
         /\ recv' = e.recv
         /\ result' = e.out
         /\ UNCHANGED <<env, _client, phase, pending, running, tokenRequests>>

\* ClientSpec: one DigiKeyClient, constructed with any credentials, on which
\* authenticate, get_headers and make_request are called in any order.
ClientInit ==
    /\ env = NoEnv
    /\ \E id \in CredentialValues, secret \in SecretValues, sandbox \in BOOLEAN :
         heap = <<DigiKeyClient(id, secret, sandbox)>>
    /\ _client = 0
    /\ phase = "library"
    /\ pending = 0
    /\ running = NoTask
    /\ tokenRequests = 0
    /\ last = NoCall
    /\ sent = <<>>
    /\ recv = <<>>
    /\ result = NoResult

ClientNext ==
    \/ Authenticate
    \/ GetHeaders
    \/ MakeRequest

ClientSpec == ClientInit /\ [][ClientNext]_vars

----------------------------------------------------------------------------
\* OpSpec: the nine operations called directly on one client, which is
\* either fresh or already authenticated.

OpInit ==
    /\ env = NoEnv
    /\ \E sandbox \in BOOLEAN, tok \in {None, Some("tokA")} :
         heap = <<[DigiKeyClient(Some("id1"), Some("sec1"), sandbox) EXCEPT !.access_token = tok]>>
    /\ _client = 0
    /\ phase = "library"
    /\ pending = 0
    /\ running = NoTask
    /\ tokenRequests = 0
    /\ last = NoCall
    /\ sent = <<>>
    /\ recv = <<>>
    /\ result = NoResult

\* One call of operation op on the client; a behaviour of OpSpec is one call.
Called(op, a, resp) ==
    LET e == Apply(op, heap[1], a, resp)
    IN /\ heap' = [heap EXCEPT ![1] = e.client]
       /\ last' = Call(op, a, 1)
       /\ sent' = e.sent
       /\ recv' = e.recv
       /\ result' = e.out
       /\ UNCHANGED <<env, _client, phase, pending, running, tokenRequests>>

OpKeywordSearch ==
    /\ last = NoCall
    /\ \E a \in KeywordSearchArgs, resp \in ApiResponses : Called("keyword_search", a, resp)

OpProductDetails ==
    /\ last = NoCall
    /\ \E a \in ProductDetailsArgs, resp \in ApiResponses : Called("product_details", a, resp)

OpSearchManufacturers ==
    /\ last = NoCall
    /\ \E a \in NoArgs, resp \in ApiResponses : Called("search_manufacturers", a, resp)

OpSearchCategories ==
    /\ last = NoCall
    /\ \E a \in NoArgs, resp \in ApiResponses : Called("search_categories", a, resp)

OpGetCategoryById ==
    /\ last = NoCall
    /\ \E a \in CategoryByIdArgs, resp \in ApiResponses : Called("get_category_by_id", a, resp)

OpSearchProductSubstitutions ==
    /\ last = NoCall
    /\ \E a \in SubstitutionsArgs, resp \in ApiResponses : Called("search_product_substitutions", a, resp)

OpGetProductMedia ==
    /\ last = NoCall
    /\ \E a \in ProductMediaArgs, resp \in ApiResponses : Called("get_product_media", a, resp)

OpGetProductPricing ==
    /\ last = NoCall
    /\ \E a \in ProductPricingArgs, resp \in ApiResponses : Called("get_product_pricing", a, resp)

OpGetDigiReelPricing ==
    /\ last = NoCall
    /\ \E a \in DigiReelPricingArgs, resp \in ApiResponses : Called("get_digi_reel_pricing", a, resp)

OpMakeRequest ==
    /\ last = NoCall
    /\ MakeRequest

OpNext ==
    \/ OpMakeRequest
    \/ OpKeywordSearch
    \/ OpProductDetails
    \/ OpSearchManufacturers
    \/ OpSearchCategories
    \/ OpGetCategoryById
    \/ OpSearchProductSubstitutions
    \/ OpGetProductMedia
    \/ OpGetProductPricing
    \/ OpGetDigiReelPricing

OpSpec == OpInit /\ [][OpNext]_vars

----------------------------------------------------------------------------
\* server.py: the module-level client, the tools, main() and the health route.

True == <<"t", "r", "u", "e">>
False == <<"f", "a", "l", "s", "e">>

\* os.getenv(name, default)
GetEnv(name, default) == IF env[name] = None THEN default ELSE env[name][1]

\* What get_client() does: the heap and _client afterwards, the client it
\* returns (0 when it raises), the outcome, and the traffic of authenticate().
GetClientEffect(h, cl, ret, out, s, r) ==
    [heap |-> h, client |-> cl, ret |-> ret, out |-> out, sent |-> s, recv |-> r]

\* The body of get_client()'s `if _client is None`: the environment is read,
\* the client constructed, bound to _client, and authenticated.
create_client(resp) ==
    LET client_id == env.CLIENT_ID
        client_secret == env.CLIENT_SECRET
        use_sandbox == Lower(GetEnv("USE_SANDBOX", False)) = True
    IN IF ~Truthy(client_id) \/ ~Truthy(client_secret)
       THEN GetClientEffect(heap, _client, 0,
                Raise("ValueError", 0, "CLIENT_ID and CLIENT_SECRET must be set in environment"),
                <<>>, <<>>)
       ELSE LET new == Len(heap) + 1
                a == authenticate(DigiKeyClient(client_id, client_secret, use_sandbox), resp)
            IN IF a.out.kind = "raise"
               THEN GetClientEffect(Append(heap, a.client), new, 0, a.out, a.sent, a.recv)
               ELSE GetClientEffect(Append(heap, a.client), new, new, Return(None), a.sent, a.recv)

\* A get_client without the `if _client is None`: a client per call.
get_client_NoCache(resp) == create_client(resp)

\* server.get_client(), resp being the token endpoint's answer if it is asked.
get_client(resp) ==
    IF _client = 0
    THEN create_client(resp)
    ELSE GetClientEffect(heap, _client, _client, Return(None), <<>>, <<>>)

\* The token endpoint's possible answers to this get_client() call: it answers
\* only when asked.
TokenAnswers ==
    LET any == CHOOSE r \in TokenResponses : TRUE
    IN IF get_client(any).sent = <<>> THEN {any} ELSE TokenResponses

\* Arguments the tools are invoked with: every optional parameter left at
\* its default, or set.
KeywordToolArgs ==
    {[keywords |-> "resistor", limit |-> KeywordSearchDefaultLimit, manufacturer_id |-> None,
      category_id |-> None, search_options |-> None, sort_field |-> None,
      sort_order |-> DefaultSortOrder],
     [keywords |-> "resistor", limit |-> 10, manufacturer_id |-> Some("m1"),
      category_id |-> Some("c1"), search_options |-> Some(<<"A", ",", "B">>),
      sort_field |-> Some("Price"), sort_order |-> "Descending"]}
DetailsToolArgs ==
    {[product_number |-> "P2", manufacturer_id |-> None, customer_id |-> DefaultCustomerId],
     [product_number |-> "P2", manufacturer_id |-> Some("m1"), customer_id |-> "42"]}
CategoryToolArgs == {[category_id |-> 1], [category_id |-> 2]}
SubstitutionsToolArgs ==
    {[product_number |-> "P2", limit |-> SubstitutionsDefaultLimit, search_options |-> None,
      exclude_marketplace |-> FALSE],
     [product_number |-> "P2", limit |-> 5, search_options |-> Some(<<"A", ",", "B">>),
      exclude_marketplace |-> TRUE]}
MediaToolArgs == {[product_number |-> "P2"], [product_number |-> "296-1721-1-ND"]}
PricingToolArgs ==
    {[product_number |-> "P2", customer_id |-> DefaultCustomerId,
      requested_quantity |-> PricingDefaultQuantity],
     [product_number |-> "P2", customer_id |-> "42", requested_quantity |-> 100]}
DigiReelToolArgs ==
    {[product_number |-> "296-1721-1-ND", requested_quantity |-> 100,
      customer_id |-> DefaultCustomerId],
     [product_number |-> "296-1721-1-ND", requested_quantity |-> 1, customer_id |-> "42"]}

\* The tools the @mcp.tool() decorators register, by the name of the handler,
\* each with the operation its handler calls.
registry ==
    ("keyword_search_tool" :> "keyword_search")
    @@ ("product_details_tool" :> "product_details")
    @@ ("search_manufacturers_tool" :> "search_manufacturers")
    @@ ("search_categories_tool" :> "search_categories")
    @@ ("get_category_by_id_tool" :> "get_category_by_id")
    @@ ("search_product_substitutions_tool" :> "search_product_substitutions")
    @@ ("get_product_media_tool" :> "get_product_media")
    @@ ("get_product_pricing_tool" :> "get_product_pricing")
    @@ ("get_digi_reel_pricing_tool" :> "get_digi_reel_pricing")

\* A tool handler is a coroutine without an await: once the event loop runs
\* it, it runs to its end before any other handler does.  It is modelled in
\* two steps, get_client() and then the operation, with nothing in between.

\* The handler of `tool` begins: its first argument, get_client(), is evaluated.
Begin(tool) ==
    /\ tool \in DOMAIN registry
    /\ phase = "serving"
    /\ running = NoTask
    /\ pending > 0
    /\ \E resp \in TokenAnswers :
         LET g == get_client(resp)
         IN /\ heap' = g.heap
            /\ _client' = g.client
            /\ tokenRequests' = tokenRequests + Len(g.sent)
            /\ last' = Call(tool, <<>>, g.ret)
            /\ sent' = g.sent
            /\ recv' = g.recv
            /\ IF g.out.kind = "raise"
               THEN /\ result' = g.out
                    /\ running' = NoTask
                    /\ pending' = pending - 1
               ELSE /\ result' = NoResult
                    /\ running' = Task(tool, g.ret)
                    /\ pending' = pending
            /\ UNCHANGED <<env, phase>>

\* The handler of `tool` goes on: it calls operation op with the tool's
\* arguments and returns what the operation returns.
Finish(tool, op, Args) ==
    /\ running # NoTask
    /\ running.tool = tool
    /\ \E a \in Args, resp \in ApiResponses :
         LET e == Apply(op, heap[running.client], a, resp)
         IN /\ heap' = [heap EXCEPT ![running.client] = e.client]
            /\ last' = Call(tool, a, running.client)
            /\ sent' = sent \o e.sent
            /\ recv' = recv \o e.recv
            /\ result' = e.out
            /\ running' = NoTask
            /\ pending' = pending - 1
            /\ UNCHANGED <<env, _client, phase, tokenRequests>>

keyword_search_tool ==
    \/ /\ Begin("keyword_search_tool")
    \/ /\ Finish("keyword_search_tool", "keyword_search", KeywordToolArgs)

product_details_tool ==
    \/ /\ Begin("product_details_tool")
    \/ /\ Finish("product_details_tool", "product_details", DetailsToolArgs)

search_manufacturers_tool ==
    \/ /\ Begin("search_manufacturers_tool")
    \/ /\ Finish("search_manufacturers_tool", "search_manufacturers", NoArgs)

search_categories_tool ==
    \/ /\ Begin("search_categories_tool")
    \/ /\ Finish("search_categories_tool", "search_categories", NoArgs)

get_category_by_id_tool ==
    \/ /\ Begin("get_category_by_id_tool")
    \/ /\ Finish("get_category_by_id_tool", "get_category_by_id", CategoryToolArgs)

search_product_substitutions_tool ==
    \/ /\ Begin("search_product_substitutions_tool")
    \/ /\ Finish("search_product_substitutions_tool", "search_product_substitutions",
                 SubstitutionsToolArgs)

\* A get_product_media_tool whose handler calls get_product_pricing.
get_product_media_tool_CallsPricing ==
    \/ /\ Begin("get_product_media_tool")
    \/ /\ Finish("get_product_media_tool", "get_product_pricing", PricingToolArgs)

get_product_media_tool ==
    \/ /\ Begin("get_product_media_tool")
    \/ /\ Finish("get_product_media_tool", "get_product_media", MediaToolArgs)

get_product_pricing_tool ==
    \/ /\ Begin("get_product_pricing_tool")
    \/ /\ Finish("get_product_pricing_tool", "get_product_pricing", PricingToolArgs)

get_digi_reel_pricing_tool ==
    \/ /\ Begin("get_digi_reel_pricing_tool")
    \/ /\ Finish("get_digi_reel_pricing_tool", "get_digi_reel_pricing", DigiReelToolArgs)

\* The hosting runtime hands the event loop one more tool invocation.
Invoke ==
    /\ phase = "serving"
    /\ pending < MaxPending
    /\ pending' = pending + 1
    /\ UNCHANGED <<env, heap, _client, phase, running, tokenRequests, last, sent, recv, result>>

\* A main() that starts serving whether or not the client was initialized.
main_ServesAfterFailedStartup ==
    /\ phase = "boot"
    /\ \E resp \in TokenAnswers :
         LET g == get_client(resp)
         IN /\ heap' = g.heap
            /\ _client' = g.client
            /\ tokenRequests' = tokenRequests + Len(g.sent)
            /\ last' = Call("main", <<>>, g.ret)
            /\ sent' = g.sent
            /\ recv' = g.recv
            /\ result' = g.out
            /\ phase' = "serving"
            /\ UNCHANGED <<env, pending, running>>

\* server.main(): _initialize_client(), then mcp.run().
main ==
    /\ phase = "boot"
    /\ \E resp \in TokenAnswers :
         LET g == get_client(resp)
         IN /\ heap' = g.heap
            /\ _client' = g.client
            /\ tokenRequests' = tokenRequests + Len(g.sent)
            /\ last' = Call("main", <<>>, g.ret)
            /\ sent' = g.sent
            /\ recv' = g.recv
            /\ result' = g.out
            /\ phase' = IF g.out.kind = "raise" THEN "exited" ELSE "serving"
            /\ UNCHANGED <<env, pending, running>>

\* The mcp object is served without main(), as the integration tests do:
\* the client is then created by the first tool invocation.
ServeLazily ==
    /\ phase = "boot"
    /\ phase' = "serving"
    /\ UNCHANGED <<env, heap, _client, pending, running, tokenRequests, last, sent, recv, result>>

HealthPayload == [status |-> "ok", service |-> "digikey-mcp"]

\* A health route that obtains the client before it answers.
health_InitializesClient ==
    /\ phase = "serving"
    /\ running = NoTask
    /\ \E resp \in TokenAnswers :
         LET g == get_client(resp)
         IN /\ heap' = g.heap
            /\ _client' = g.client
            /\ tokenRequests' = tokenRequests + Len(g.sent)
            /\ last' = Call("health", <<>>, 0)
            /\ sent' = g.sent
            /\ recv' = g.recv
            /\ result' = Return(Some(HealthPayload))
            /\ UNCHANGED <<env, phase, pending, running>>

\* server.health: GET /health
health ==
    /\ phase = "serving"
    /\ running = NoTask
    /\ last' = Call("health", <<>>, 0)
    /\ sent' = <<>>
    /\ recv' = <<>>
    /\ result' = Return(Some(HealthPayload))
    /\ UNCHANGED <<env, heap, _client, phase, pending, running, tokenRequests>>

SandboxValues ==
    {None, Some(True), Some(<<"T", "R", "U", "E">>), Some(<<"T", "r", "u", "e">>),
     Some(False), Some(<<"1">>)}

Init ==
    /\ env \in [CLIENT_ID : CredentialValues, CLIENT_SECRET : SecretValues,
                USE_SANDBOX : SandboxValues]
    /\ heap = <<>>
    /\ _client = 0
    /\ phase = "boot"
    /\ pending = 0
    /\ running = NoTask
    /\ tokenRequests = 0
    /\ last = NoCall
    /\ sent = <<>>
    /\ recv = <<>>
    /\ result = NoResult

Next ==
    \/ main
    \/ ServeLazily
    \/ Invoke
    \/ health
    \/ keyword_search_tool
    \/ product_details_tool
    \/ search_manufacturers_tool
    \/ search_categories_tool
    \/ get_category_by_id_tool
    \/ search_product_substitutions_tool
    \/ get_product_media_tool
    \/ get_product_pricing_tool
    \/ get_digi_reel_pricing_tool

Spec == Init /\ [][Next]_vars

\* MainSpec: the process started through main(), the only way into serving.
MainNext ==
    \/ main
    \/ Invoke
    \/ health
    \/ keyword_search_tool
    \/ product_details_tool
    \/ search_manufacturers_tool
    \/ search_categories_tool
    \/ get_category_by_id_tool
    \/ search_product_substitutions_tool
    \/ get_product_media_tool
    \/ get_product_pricing_tool
    \/ get_digi_reel_pricing_tool

MainSpec == Init /\ [][MainNext]_vars

----------------------------------------------------------------------------
\* Properties.

\* A request to the token endpoint (any other request is an API request).
IsTokenRequest(r) == r.url[Len(r.url)] = TokenPath
\* The scheme and host a request goes to.
Host(r) == r.url[1]
\* An access token that authorizes nothing: None or the empty string.
EmptyToken(t) == t = None \/ t = Some("")
Tools == {t \o "_tool" : t \in Operations}

\* C1: get_client() returns an authenticated client: every client it has
\* returned to a caller holds a non-empty access_token, also after an earlier
\* authenticate() failed, and no API request goes out with an empty or None
\* bearer token.
C1_GetClientReturnsAuthenticatedClient ==
    /\ last.client # 0 => ~EmptyToken(heap[last.client].access_token)
    /\ \A i \in 1..Len(sent) :
         ~IsTokenRequest(sent[i]) =>
           sent[i].headers["Authorization"] \notin {"Bearer None", "Bearer "}

\* C2: when the token endpoint answers with any status other than 200,
\* authenticate() raises an error carrying that status and the response body
\* and stores no access_token; only a 200 stores one.
C2_Non200TokenResponseFailsAndStoresNothing ==
    [][(last'.op = "authenticate" /\ recv' # <<>> /\ recv'[1].status # 200) =>
         /\ result'.kind = "raise"
         /\ result'.status = recv'[1].status
         /\ result'.text = recv'[1].text
         /\ heap'[1].access_token = heap[1].access_token]_vars

\* C3: make_request turns every response whose status is not 200 into an
\* error carrying exactly that status and body text, never into a returned
\* value, and returns the parsed JSON body of a 200 response unchanged.
C3_Non200ResponseRaisesWithStatusAndBody ==
    (last.op = "make_request" /\ recv # <<>>) =>
      IF recv[1].status # 200
      THEN /\ result.kind = "raise"
           /\ result.status = recv[1].status
           /\ result.text = recv[1].text
      ELSE recv[1].json # None => (result.kind = "return" /\ result.value = recv[1].json)

\* C4: authenticate() on a client whose client_id or client_secret is empty
\* or absent raises the configuration error, sends nothing to the token
\* endpoint and leaves the client, its access_token included, as it was.
C4_EmptyCredentialsFailWithoutRequest ==
    [][(last'.op = "authenticate"
          /\ (~Truthy(heap[1].client_id) \/ ~Truthy(heap[1].client_secret))) =>
         /\ result'.kind = "raise"
         /\ result'.exc = "ValueError"
         /\ sent' = <<>>
         /\ recv' = <<>>
         /\ heap'[1].access_token = heap[1].access_token
         /\ heap' = heap]_vars

\* C4's case: authenticate() has just been called on a client that has a
\* secret and an empty client_id, and raised.
C4_Witness ==
    /\ last.op = "authenticate"
    /\ heap[1].client_id = Some("")
    /\ Truthy(heap[1].client_secret)
    /\ result.exc = "ValueError"

\* C5: the session moves one way.  In the server process no step clears or
\* replaces the access_token of a client that has one (whichever tool runs,
\* whatever the upstream answers, and however often get_client() is called
\* again), and a client holds a token only if, in the step that constructed
\* it, authenticate() asked the token endpoint and returned.
C5_TokenSetOnceNeverReplaced ==
    [][/\ Len(heap') >= Len(heap)
       /\ \A i \in 1..Len(heap) :
            heap[i].access_token # None => heap'[i].access_token = heap[i].access_token
       /\ \A i \in 1..Len(heap') :
            (heap'[i].access_token # None
               /\ (i > Len(heap) \/ heap[i].access_token = None)) =>
              /\ sent' # <<>>
              /\ IsTokenRequest(sent'[1])
              /\ recv'[1].json = Some([access_token |-> heap'[i].access_token[1]])
              /\ result'.kind # "raise"]_vars

\* C5's case: the authenticated client has just been used by a tool whose
\* API request the upstream answered with 401.
C5_Witness ==
    /\ last.op \in Tools
    /\ last.client # 0
    /\ heap[last.client].access_token = Some("tokA")
    /\ recv # <<>>
    /\ recv[Len(recv)].status = 401
    /\ result.exc = "HTTPError"

\* C6: however the concurrently invoked tools are interleaved, get_client()
\* creates at most one client and sends at most one request to the token
\* endpoint in the life of the process, and every tool handler runs on that
\* one client.
C6_OneClientOneTokenRequest ==
    /\ Len(heap) <= 1
    /\ tokenRequests <= 1
    /\ last.client # 0 => (last.client = _client /\ last.client = 1)
    /\ running # NoTask => (running.client = _client /\ running.client = 1)

\* C6's case: two tool invocations are in flight and the handler of the
\* first to run has just created the client and asked for the token.
C6_Witness ==
    /\ pending = 2
    /\ running # NoTask
    /\ Len(sent) = 1
    /\ IsTokenRequest(sent[1])
    /\ tokenRequests = 1

\* The request of the call in `last`, its URL as sent, and its JSON body.
TheRequest == sent[1]
TheUrl == Text(sent[1].url)
ApiBase == Text(heap[1].api_base)

\* The call in `last` left every optional parameter at its default.
AllOptionalUnset ==
    LET a == last.args
    IN CASE last.op = "keyword_search" ->
              /\ a.limit = KeywordSearchDefaultLimit
              /\ a.manufacturer_id = None
              /\ a.category_id = None
              /\ a.search_options = None
              /\ a.sort_field = None
              /\ a.sort_order = DefaultSortOrder
         [] last.op = "product_details" ->
              a.manufacturer_id = None /\ a.customer_id = DefaultCustomerId
         [] last.op = "search_product_substitutions" ->
              /\ a.limit = SubstitutionsDefaultLimit
              /\ a.search_options = None
              /\ a.exclude_marketplace = FALSE
         [] last.op = "get_product_pricing" ->
              a.customer_id = DefaultCustomerId /\ a.requested_quantity = PricingDefaultQuantity
         [] last.op = "get_digi_reel_pricing" -> a.customer_id = DefaultCustomerId
         [] OTHER -> last.op \in Operations

\* What the six operations that never take a query or body parameter beyond
\* their required ones send when the optional parameters are unset.
RequiredOnlyElsewhere ==
    LET a == last.args
    IN CASE last.op = "product_details" ->
              /\ TheUrl = ApiBase \o "/products/v4/search/" \o a.product_number \o "/productdetails"
              /\ TheRequest.json = None
         [] last.op = "search_manufacturers" ->
              /\ TheUrl = ApiBase \o "/products/v4/search/manufacturers"
              /\ TheRequest.json = None
         [] last.op = "search_categories" ->
              /\ TheUrl = ApiBase \o "/products/v4/search/categories"
              /\ TheRequest.json = None
         [] last.op = "get_category_by_id" ->
              /\ TheUrl = ApiBase \o "/products/v4/search/categories/" \o ToString(a.category_id)
              /\ TheRequest.json = None
         [] last.op = "get_product_media" ->
              /\ TheUrl = ApiBase \o "/products/v4/search/" \o a.product_number \o "/media"
              /\ TheRequest.json = None
         [] last.op = "get_digi_reel_pricing" ->
              /\ TheUrl = ApiBase \o "/products/v4/search/" \o a.product_number
                            \o "/digireelpricing?requestedQuantity=" \o ToString(a.requested_quantity)
              /\ TheRequest.json = None
         [] OTHER -> TRUE

\* C7 as stated: with every optional parameter unset, the URL query and the
\* JSON body hold the required fields only (no limit, no exclude_marketplace,
\* no requested_quantity of get_product_pricing, no filter, no sort options).
C7_UnsetOptionalsSendOnlyRequired ==
    (AllOptionalUnset /\ sent # <<>>) =>
      /\ RequiredOnlyElsewhere
      /\ last.op = "keyword_search" =>
           /\ TheUrl = ApiBase \o "/products/v4/search/keyword"
           /\ TheRequest.json = Some("Keywords" :> last.args.keywords)
      /\ last.op = "search_product_substitutions" =>
           TheUrl = ApiBase \o "/products/v4/search/" \o last.args.product_number \o "/substitutions"
      /\ last.op = "get_product_pricing" =>
           TheUrl = ApiBase \o "/products/v4/search/" \o last.args.product_number \o "/productpricing"

\* C7 as amended: with every optional parameter unset, the URL query and the
\* JSON body hold the required fields and the defaults of limit,
\* exclude_marketplace and requested_quantity (Limit 5; limit=10 and
\* excludeMarketPlaceProducts=False; requestedQuantity=1), and nothing for
\* the other optional parameters: no key, hence no empty or null value, for
\* manufacturer_id, category_id, search_options or the sort options.
C7_UnsetOptionalsSendRequiredAndDefaults ==
    (AllOptionalUnset /\ sent # <<>>) =>
      /\ RequiredOnlyElsewhere
      /\ last.op = "keyword_search" =>
           /\ TheUrl = ApiBase \o "/products/v4/search/keyword"
           /\ TheRequest.json = Some(("Keywords" :> last.args.keywords) @@ ("Limit" :> 5))
      /\ last.op = "search_product_substitutions" =>
           /\ TheUrl = ApiBase \o "/products/v4/search/" \o last.args.product_number
                         \o "/substitutions?limit=10&excludeMarketPlaceProducts=False"
           /\ TheRequest.json = None
      /\ last.op = "get_product_pricing" =>
           /\ TheUrl = ApiBase \o "/products/v4/search/" \o last.args.product_number
                         \o "/productpricing?requestedQuantity=1"
           /\ TheRequest.json = None

\* C7's case: search_product_substitutions was called with only its product
\* number and its request went out.
C7_Witness ==
    /\ last.op = "search_product_substitutions"
    /\ AllOptionalUnset
    /\ Len(sent) = 1

RECURSIVE JoinWithCommas(_)
\* The parts written one after another with a comma between them.
JoinWithCommas(parts) ==
    IF Len(parts) = 1 THEN parts[1]
    ELSE parts[1] \o <<",">> \o JoinWithCommas(Tail(parts))

\* C8: keyword_search sends a non-empty search_options string as the ordered
\* list of its comma-separated parts (the parts hold no comma and, joined by
\* commas, give the string back), and search_product_substitutions sends the
\* same string unsplit, as the one value of searchOptionList in the query.
C8_SearchOptionsSplitInBodyUnsplitInQuery ==
    /\ (last.op = "keyword_search" /\ TruthyChars(last.args.search_options) /\ sent # <<>>) =>
         /\ TheRequest.json # None
         /\ "SearchOptionList" \in DOMAIN TheRequest.json[1]
         /\ LET parts == TheRequest.json[1]["SearchOptionList"]
            IN /\ Len(parts) >= 1
               /\ \A i \in 1..Len(parts) : \A j \in 1..Len(parts[i]) : parts[i][j] # ","
               /\ JoinWithCommas(parts) = last.args.search_options[1]
    /\ (last.op = "search_product_substitutions" /\ TruthyChars(last.args.search_options)
          /\ sent # <<>>) =>
         TheUrl = ApiBase \o "/products/v4/search/" \o last.args.product_number
                    \o "/substitutions?limit=" \o ToString(last.args.limit)
                    \o "&excludeMarketPlaceProducts="
                    \o (IF last.args.exclude_marketplace THEN "True" ELSE "False")
                    \o "&searchOptionList=" \o Text(last.args.search_options[1])

\* C8's case: keyword_search was given "A,B" and sent ["A", "B"].
C8_Witness ==
    /\ last.op = "keyword_search"
    /\ last.args.search_options = Some(<<"A", ",", "B">>)
    /\ Len(sent) = 1
    /\ TheRequest.json[1]["SearchOptionList"] = << <<"A">>, <<"B">> >>

\* Whether the environment asks for the sandbox: USE_SANDBOX spells "true".
SandboxRequested ==
    env.USE_SANDBOX \in {Some(<<"t", "r", "u", "e">>), Some(<<"T", "R", "U", "E">>),
                         Some(<<"T", "r", "u", "e">>)}

\* C9: a client's token endpoint and API base are on one host, the sandbox
\* host when the sandbox flag is set and the production host otherwise, in
\* every state, and the token request and every API request of the client
\* go to that host.
C9_OneHostPerClient ==
    /\ \A i \in 1..Len(heap) :
         LET c == heap[i]
             host == IF SandboxRequested THEN SandboxBase ELSE ProdBase
         IN /\ c.use_sandbox = SandboxRequested
            /\ c.api_base = <<host>>
            /\ c.token_url = <<host, "/v1/oauth2/token">>
    /\ \A j \in 1..Len(sent) :
         /\ _client # 0
         /\ Host(sent[j]) = heap[_client].api_base[1]
         /\ Host(sent[j]) = heap[_client].token_url[1]

\* C9's case: under USE_SANDBOX=TRUE a tool handler has sent the token
\* request and then its API request.
C9_Witness ==
    /\ env.USE_SANDBOX = Some(<<"T", "R", "U", "E">>)
    /\ Len(sent) = 2
    /\ IsTokenRequest(sent[1])
    /\ ~IsTokenRequest(sent[2])
    /\ Host(sent[2]) = SandboxBase

\* C10: keyword_search issues a POST that carries a JSON body; each of the
\* other eight operations issues a GET without a body; and make_request
\* sends no body on its GET path even when it is given one.
C10_OnlyKeywordSearchPostsABody ==
    sent # <<>> =>
      /\ Len(sent) = 1
      /\ TheRequest.data = None
      /\ last.op = "keyword_search" =>
           /\ TheRequest.method = "POST"
           /\ TheRequest.json # None
           /\ "Keywords" \in DOMAIN TheRequest.json[1]
      /\ last.op \in Operations \ {"keyword_search"} =>
           /\ TheRequest.method = "GET"
           /\ TheRequest.json = None
      /\ last.op = "make_request" =>
           /\ last.args.method \in {"GET", "get"} =>
                (TheRequest.method = "GET" /\ TheRequest.json = None)
           /\ TheRequest.json # None => TheRequest.method = "POST"

\* C10's case: make_request was called with method "get" and a body, and
\* its request went out.
C10_Witness ==
    /\ last.op = "make_request"
    /\ last.args.method = "get"
    /\ last.args.data # None
    /\ Len(sent) = 1

\* C11: a call of one of the nine operations sends exactly one HTTP request
\* and receives one response, and ends as make_request ends on that request
\* and response: the parsed JSON of a 200 response is returned unchanged,
\* and an error make_request raises is raised unchanged.
C11_OneRequestOutcomeUnchanged ==
    last.op \in Operations =>
      /\ Len(sent) = 1
      /\ Len(recv) = 1
      /\ ~IsTokenRequest(sent[1])
      /\ result = make_request(heap[1], sent[1].method, sent[1].url, sent[1].headers,
                               sent[1].json, recv[1]).out
      /\ (recv[1].status = 200 /\ recv[1].json # None) => result = Return(recv[1].json)
      /\ RaisesForStatus(recv[1].status) =>
           result = Raise("HTTPError", recv[1].status, recv[1].text)
      /\ result.kind \in {"return", "raise"}

\* C11's case: get_category_by_id(category_id=1) was answered 200 with
\* {"Categories": [{"CategoryId": "1"}]} and returned that body.
C11_Witness ==
    /\ last.op = "get_category_by_id"
    /\ last.args.category_id = 1
    /\ sent[1].method = "GET"
    /\ TheUrl = ApiBase \o "/products/v4/search/categories/1"
    /\ recv[1] = Resp(200, DataBody)
    /\ result = Return(Some([Categories |-> <<[CategoryId |-> "1"]>>]))

\* C12: every failure reaches the tool invoker.  A tool invocation that has
\* ended ended in an error, never in a returned value, whenever a credential
\* is missing from the environment, or the token endpoint or the API
\* answered it with a status other than 200, or it ran on a client whose
\* authentication had failed on an earlier invocation.
C12_EveryFailureSurfaced ==
    (last.op \in DOMAIN registry /\ running = NoTask) =>
      /\ (~Truthy(env.CLIENT_ID) \/ ~Truthy(env.CLIENT_SECRET)) => result.kind = "raise"
      /\ (\E i \in 1..Len(recv) : recv[i].status # 200) => result.kind = "raise"
      /\ (last.client # 0 /\ heap[last.client].access_token = None) => result.kind = "raise"

\* C13: while CLIENT_ID or CLIENT_SECRET is missing or empty in the
\* environment, get_client() raises the configuration error (in main() and
\* in every tool invocation, the first and each later one), no client is
\* ever constructed, _client stays unset and nothing is sent; and a client
\* that is constructed uses the sandbox exactly when USE_SANDBOX is the
\* four letters of "true" in any case, production when it is unset or
\* anything else.
C13_MissingCredentialsAndSandboxFlag ==
    /\ (~Truthy(env.CLIENT_ID) \/ ~Truthy(env.CLIENT_SECRET)) =>
         /\ heap = <<>>
         /\ _client = 0
         /\ tokenRequests = 0
         /\ sent = <<>>
         /\ recv = <<>>
         /\ running = NoTask
         /\ last.op \in (DOMAIN registry) \cup {"main"} =>
              /\ result.kind = "raise"
              /\ result.exc = "ValueError"
              /\ result.text = "CLIENT_ID and CLIENT_SECRET must be set in environment"
    /\ \A i \in 1..Len(heap) :
         heap[i].use_sandbox =
           /\ env.USE_SANDBOX # None
           /\ Len(env.USE_SANDBOX[1]) = 4
           /\ env.USE_SANDBOX[1][1] \in {"t", "T"}
           /\ env.USE_SANDBOX[1][2] \in {"r", "R"}
           /\ env.USE_SANDBOX[1][3] \in {"u", "U"}
           /\ env.USE_SANDBOX[1][4] \in {"e", "E"}

\* C13's case: with an empty CLIENT_SECRET a tool invocation has just failed
\* on get_client()'s check while another invocation is still waiting.
C13_Witness ==
    /\ env.CLIENT_ID = Some("id1")
    /\ env.CLIENT_SECRET = Some("")
    /\ last.op \in DOMAIN registry
    /\ result.exc = "ValueError"
    /\ pending = 1
    /\ _client = 0

\* C14: get_headers(customer_id) returns exactly seven headers computed from
\* the client's token and client id and from customer_id ("0" when the
\* argument is left out), changes nothing in the client and sends nothing;
\* it never raises, and on a client that holds no token its Authorization
\* header is "Bearer None".
C14_GetHeadersPureSevenHeaders ==
    [][last'.op = "get_headers" =>
         /\ result'.kind = "return"
         /\ result'.value # None
         /\ LET h == result'.value[1]
                given == last'.args.customer_id
            IN /\ DOMAIN h = {"Authorization", "X-DIGIKEY-Client-Id", "Content-Type",
                              "X-DIGIKEY-Locale-Site", "X-DIGIKEY-Locale-Language",
                              "X-DIGIKEY-Locale-Currency", "X-DIGIKEY-Customer-Id"}
               /\ Cardinality(DOMAIN h) = 7
               /\ h["Authorization"] = IF heap[1].access_token = None
                                       THEN "Bearer None"
                                       ELSE "Bearer " \o heap[1].access_token[1]
               /\ h["X-DIGIKEY-Client-Id"] = heap[1].client_id
               /\ h["Content-Type"] = "application/json"
               /\ h["X-DIGIKEY-Locale-Site"] = "US"
               /\ h["X-DIGIKEY-Locale-Language"] = "en"
               /\ h["X-DIGIKEY-Locale-Currency"] = "USD"
               /\ h["X-DIGIKEY-Customer-Id"] = IF given = None THEN "0" ELSE given[1]
         /\ heap' = heap
         /\ sent' = <<>>
         /\ recv' = <<>>
         /\ tokenRequests' = tokenRequests]_vars

\* C14's case: get_headers() was called without an argument on a client
\* that has credentials and has not authenticated.
C14_Witness ==
    /\ last.op = "get_headers"
    /\ last.args.customer_id = None
    /\ heap[1].client_id = Some("id1")
    /\ heap[1].access_token = None
    /\ result.kind = "return"
    /\ result.value[1]["Authorization"] = "Bearer None"

\* C15: get_digi_reel_pricing sends exactly
\*   GET <api_base>/products/v4/search/<product_number>/digireelpricing?requestedQuantity=<requested_quantity>
\* and get_product_pricing and product_details send their own paths the
\* same way; in all three the customer id travels in the
\* X-DIGIKEY-Customer-Id header and is no part of the URL.
C15_CustomerIdOnlyInHeader ==
    LET a == last.args
    IN /\ last.op = "get_digi_reel_pricing" =>
            /\ Len(sent) = 1
            /\ sent[1].method = "GET"
            /\ TheUrl = ApiBase \o "/products/v4/search/" \o a.product_number
                          \o "/digireelpricing?requestedQuantity="
                          \o ToString(a.requested_quantity)
            /\ sent[1].headers["X-DIGIKEY-Customer-Id"] = a.customer_id
       /\ last.op = "get_product_pricing" =>
            /\ Len(sent) = 1
            /\ sent[1].method = "GET"
            /\ TheUrl = ApiBase \o "/products/v4/search/" \o a.product_number
                          \o "/productpricing?requestedQuantity="
                          \o ToString(a.requested_quantity)
            /\ sent[1].headers["X-DIGIKEY-Customer-Id"] = a.customer_id
       /\ last.op = "product_details" =>
            /\ Len(sent) = 1
            /\ sent[1].method = "GET"
            /\ TheUrl = ApiBase \o "/products/v4/search/" \o a.product_number
                          \o "/productdetails"
                          \o (IF a.manufacturer_id \in {None, Some("")} THEN ""
                              ELSE "?manufacturerId=" \o a.manufacturer_id[1])
            /\ sent[1].headers["X-DIGIKEY-Customer-Id"] = a.customer_id

\* C15's case: get_digi_reel_pricing(product_number="296-1721-1-ND",
\* requested_quantity=100) with customer_id at its default, on production.
C15_Witness ==
    /\ last.op = "get_digi_reel_pricing"
    /\ last.args.customer_id = "0"
    /\ TheUrl = "https://api.digikey.com/products/v4/search/296-1721-1-ND/digireelpricing?requestedQuantity=100"
    /\ sent[1].headers["X-DIGIKEY-Customer-Id"] = "0"

\* The operation a tool is named after.
OperationOf(tool) == CHOOSE op \in Operations : op \o "_tool" = tool

\* C16: the registered tools are exactly the nine names <operation>_tool,
\* one per operation.  A handler first takes its client from get_client()
\* (the module-level client), and an invocation that got a client ends as
\* the operation of the tool's name ends when called on that client with
\* the tool's arguments: it sent that operation's request and its outcome
\* is the operation's outcome; an invocation that got no client sent no API
\* request and ends with get_client()'s error.
C16_EachToolCallsItsOperation ==
    /\ DOMAIN registry = {op \o "_tool" : op \in Operations}
    /\ Cardinality(DOMAIN registry) = 9
    /\ \A t \in DOMAIN registry : registry[t] = OperationOf(t)
    /\ running # NoTask =>
         /\ running.tool \in DOMAIN registry
         /\ running.client = _client
         /\ running.client # 0
         /\ last = Call(running.tool, <<>>, running.client)
         /\ \A i \in 1..Len(sent) : IsTokenRequest(sent[i])
    /\ (last.op \in DOMAIN registry /\ running = NoTask /\ last.client # 0) =>
         /\ last.client = _client
         /\ sent # <<>>
         /\ LET e == Apply(OperationOf(last.op), heap[last.client], last.args, recv[Len(recv)])
            IN /\ e.sent = <<sent[Len(sent)]>>
               /\ result = e.out
         /\ \A i \in 1..(Len(sent) - 1) : IsTokenRequest(sent[i])
    /\ (last.op \in DOMAIN registry /\ running = NoTask /\ last.client = 0) =>
         /\ result.kind = "raise"
         /\ \A i \in 1..Len(sent) : IsTokenRequest(sent[i])

\* C16's case: keyword_search_tool, invoked with every optional argument
\* set, created the client, and returned what keyword_search returned.
C16_Witness ==
    /\ last.op = "keyword_search_tool"
    /\ running = NoTask
    /\ last.client # 0
    /\ last.args.search_options # None
    /\ Len(sent) = 2
    /\ sent[2].method = "POST"
    /\ result.kind = "return"

\* C17: in a process started through main(), the client is created and
\* authenticated before anything is served.  Until main() has run nothing
\* has been invoked or handled; the server is serving only if the startup
\* get_client() returned, having asked the token endpoint once and stored
\* the token on the module-level client; and if the startup get_client()
\* raised (missing credentials or a failed token request) the process has
\* exited with that error and no invocation was ever accepted or handled.
C17_StartupAuthenticatesBeforeServing ==
    /\ phase \in {"boot", "serving", "exited"}
    /\ phase = "boot" =>
         /\ last = NoCall
         /\ pending = 0
         /\ running = NoTask
         /\ _client = 0
    /\ phase = "serving" =>
         /\ Truthy(env.CLIENT_ID) /\ Truthy(env.CLIENT_SECRET)
         /\ _client = 1
         /\ Len(heap) = 1
         /\ heap[1].access_token # None
         /\ tokenRequests = 1
         /\ last.op = "main" => (result.kind = "return" /\ IsTokenRequest(sent[1]))
    /\ (pending > 0 \/ running # NoTask \/ last.op \in (DOMAIN registry) \cup {"health"}) =>
         phase = "serving"
    /\ (last.op = "main" /\ result.kind = "raise") => phase = "exited"
    /\ phase = "exited" =>
         /\ last.op = "main"
         /\ result.kind = "raise"
         /\ pending = 0
         /\ running = NoTask
         /\ \A i \in 1..Len(heap) : heap[i].access_token = None

\* C17's case: main() ran with credentials set, the token endpoint refused
\* them with 401, and the process exited.
C17_Witness ==
    /\ phase = "exited"
    /\ last.op = "main"
    /\ Len(sent) = 1
    /\ recv[1].status = 401
    /\ result.exc = "HTTPError"

\* C18: GET /health answers {"status": "ok", "service": "digikey-mcp"}
\* whatever the state of the client (unset, left without a token by a
\* failed authenticate(), or authenticated), and handling it constructs no
\* client, leaves _client and every client's token as they were, and sends
\* neither a token request nor an API request.  (A step that ends with the
\* health route as the last call and the same number of waiting invocations
\* is a step of the health route: accepting an invocation changes the number.)
C18_HealthFixedPayloadNoEffect ==
    [][(last'.op = "health" /\ pending' = pending) =>
         /\ result' = Return(Some([status |-> "ok", service |-> "digikey-mcp"]))
         /\ heap' = heap
         /\ _client' = _client
         /\ tokenRequests' = tokenRequests
         /\ sent' = <<>>
         /\ recv' = <<>>
         /\ running' = running
         /\ phase' = phase]_vars

\* C18's case: the health route has just answered in a process whose
\* only authenticate() failed, with a tool invocation waiting.
C18_Witness ==
    /\ last.op = "health"
    /\ result.kind = "return"
    /\ _client # 0
    /\ heap[_client].access_token = None
    /\ pending > 0

====
